---------------------------- MODULE Spec2Model ----------------------------
(***************************************************************************)
(* J-series air-track codec, crates/jseries/src/lib.rs, as a state         *)
(* machine: a report is built (J3_2AirTrack::from_geo, or field by field   *)
(* as the Kani harness does), JMessage::to_bytes turns it into bytes, and  *)
(* a buffer (those bytes, or what a transport made of them) is handed to   *)
(* JMessage::from_bytes.                                                   *)
(*                                                                         *)
(* Numbers.  TLC integers are 32 bits wide, so a float argument is carried  *)
(* on a binary grid, in two parts.  An f64 degree value is a record         *)
(* [deg, f27]: deg whole degrees (floor) and f27 the fraction in units of   *)
(* 2^-27 degree, i.e. the real deg + f27 / 2^27; below 2^26 degrees every   *)
(* such value is an f64 and its product with 1e7 is computed by the code    *)
(* without rounding error wherever the result is not saturated.  An f32     *)
(* heading is a record [deg, f15], the real deg + f15 / 2^15; the f32       *)
(* roundings of the heading computation (of the argument itself when it is  *)
(* 512 degrees or more, and of the product with 100) are applied as the     *)
(* hardware applies them, to nearest with ties to even.  NaN and the        *)
(* infinities have no image here.                                           *)
(***************************************************************************)
EXTENDS Integers, Sequences, FiniteSets, TLC

VARIABLES
    geo,      \* <<>> or <<args>>: the arguments of the last from_geo call
    report,   \* <<>> or <<r>>: the J3_2AirTrack value in hand
    encoded,  \* <<>> or <<res>>: the result of JMessage::to_bytes on report
    wire,     \* the byte buffer that will be handed to JMessage::from_bytes
    result    \* <<>> or <<res>>: the result of JMessage::from_bytes(wire)

vars == <<geo, report, encoded, wire, result>>

---------------------------------------------------------------------------
(* Bounds of the exploration *)

\* How many bytes beyond the encoded message a buffer may carry.
MaxTrailing == 2

---------------------------------------------------------------------------
(* crates/jseries/src/lib.rs *)

MSG_ID_J3_2 == 50   \* 0x32

I32_MAX == 2147483647
I32_MIN == (-I32_MAX) - 1
U16_MAX == 65535

\* Result<_, Error>: tag is "Ok" or the Error variant; msg holds the value
\* of an Ok (at most one); code is the variant's payload (Short's length,
\* Unsupported's kind byte).  The text carried by Error::Deku is not kept.
Ok(v) == [tag |-> "Ok", msg |-> <<v>>, code |-> 0]
ErrShort(n) == [tag |-> "Short", msg |-> <<>>, code |-> n]
ErrUnsupported(k) == [tag |-> "Unsupported", msg |-> <<>>, code |-> k]
ErrDeku == [tag |-> "Deku", msg |-> <<>>, code |-> 0]

\* Big-endian bytes of an n-byte integer (#[deku(endian = "big")]); with
\* floor division and a non-negative remainder this is the two's-complement
\* image of a negative v.
BE(v, n) == [i \in 1..n |-> (v \div (256 ^ (n - i))) % 256]

\* The unsigned value of a big-endian byte string of at most 3 bytes.
RECURSIVE FromBE(_)
FromBE(bs) ==
    IF bs = <<>> THEN 0
    ELSE FromBE(SubSeq(bs, 1, Len(bs) - 1)) * 256 + bs[Len(bs)]

\* The value of a big-endian byte string read as unsigned / two's complement
\* (SignedMutNoSign: the slip of reading a signed field without its sign).
Unsigned(bs) == FromBE(bs)
SignedMutNoSign(bs) == (bs[1] % 128) * (256 ^ (Len(bs) - 1)) + FromBE(Tail(bs))
Signed(bs) ==
    (IF bs[1] >= 128 THEN bs[1] - 256 ELSE bs[1]) * (256 ^ (Len(bs) - 1))
        + FromBE(Tail(bs))

\* #[deku(bytes = n)] of the six fields, in declaration order.
FieldBytes == <<2, 4, 4, 2, 2, 2>>

\* DekuWrite for J3_2AirTrack: the fields, big-endian, in declaration order.
J3_2AirTrack_to_bytes(v) ==
    BE(v.track, FieldBytes[1]) \o BE(v.lat_e7, FieldBytes[2])
        \o BE(v.lon_e7, FieldBytes[3]) \o BE(v.alt_m, FieldBytes[4])
        \o BE(v.speed_ms, FieldBytes[5]) \o BE(v.heading_cdeg, FieldBytes[6])

\* The reader's cursor: field k of the body starts after the fields before it.
RECURSIVE FieldOffset(_)
FieldOffset(k) == IF k = 1 THEN 0 ELSE FieldOffset(k - 1) + FieldBytes[k - 1]

FieldSlice(body, k) ==
    SubSeq(body, FieldOffset(k) + 1, FieldOffset(k) + FieldBytes[k])

\* DekuRead for J3_2AirTrack: each field is read in turn and the first one
\* the input cannot supply ends the read with DekuError::Incomplete, which
\* From<DekuError> turns into Error::Deku.  Bytes after the last field are
\* the unread rest, which the caller drops.
J3_2AirTrack_from_bytes(body) ==
    IF \E k \in 1..Len(FieldBytes) :
           Len(body) < FieldOffset(k) + FieldBytes[k]
    THEN ErrDeku
    ELSE Ok([track        |-> Unsigned(FieldSlice(body, 1)),
             lat_e7       |-> Signed(FieldSlice(body, 2)),
             lon_e7       |-> Signed(FieldSlice(body, 3)),
             alt_m        |-> Signed(FieldSlice(body, 4)),
             speed_ms     |-> Unsigned(FieldSlice(body, 5)),
             heading_cdeg |-> Unsigned(FieldSlice(body, 6))])

\* JMessage::from_bytes.  (The two variants before it are the slips the
\* properties below are tried against: one that refuses unread input, one
\* that checks the length before the kind.)
JMessage_from_bytesMutStrict(input) ==
    IF Len(input) < 1 THEN ErrShort(Len(input))
    ELSE IF input[1] = MSG_ID_J3_2
         THEN IF Len(input) - 1 > FieldOffset(6) + FieldBytes[6] THEN ErrDeku
              ELSE J3_2AirTrack_from_bytes(Tail(input))
         ELSE ErrUnsupported(input[1])
JMessage_from_bytesMutLenFirst(input) ==
    IF Len(input) < 2 THEN ErrShort(Len(input))
    ELSE IF input[1] = MSG_ID_J3_2
         THEN J3_2AirTrack_from_bytes(Tail(input))
         ELSE ErrUnsupported(input[1])
JMessage_from_bytes(input) ==
    IF Len(input) < 1 THEN ErrShort(Len(input))
    ELSE IF input[1] = MSG_ID_J3_2
         THEN J3_2AirTrack_from_bytes(Tail(input))
         ELSE ErrUnsupported(input[1])

\* JMessage::to_bytes: the result carries the bytes in msg.
JMessage_to_bytes(v) == Ok(<<MSG_ID_J3_2>> \o J3_2AirTrack_to_bytes(v))

\* ---- from_geo ----

E7 == 10000000

\* (x * 10_000_000.0).round(): f64::round rounds half away from zero.  The
\* result is hi * E7 + lo with 0 <= lo <= E7, kept in two parts because it
\* may lie outside the 32-bit range.  The fraction's share of the product is
\* f27 * 10^7 / 2^27 = f27 * 5^7 / 2^20, worked out in two limbs of f27.
ScaleRoundE7(x) ==
    LET a == x.f27 \div (2 ^ 14)
        b == x.f27 % (2 ^ 14)
        qa == (a * (5 ^ 7)) \div (2 ^ 6)
        ra == (a * (5 ^ 7)) % (2 ^ 6)
        num == ra * (2 ^ 14) + b * (5 ^ 7)
        whole == qa + (num \div (2 ^ 20))
        part == num % (2 ^ 20)
        up == IF x.deg < 0 THEN part > 2 ^ 19 ELSE part >= 2 ^ 19
    IN [hi |-> x.deg, lo |-> whole + (IF up THEN 1 ELSE 0)]

\* `as i32` on a float: saturates at the bounds of i32.
AsI32(p) ==
    LET maxHi == I32_MAX \div E7
        maxLo == I32_MAX % E7
        minHi == I32_MIN \div E7
        minLo == I32_MIN % E7
    IN IF p.hi > maxHi \/ (p.hi = maxHi /\ p.lo > maxLo) THEN I32_MAX
       ELSE IF p.hi < minHi \/ (p.hi = minHi /\ p.lo < minLo) THEN I32_MIN
       ELSE IF p.hi = minHi THEN I32_MIN + (p.lo - minLo)
       ELSE p.hi * E7 + p.lo

\* `as u16` on a float: saturates at the bounds of u16.
AsU16(n) == IF n < 0 THEN 0 ELSE IF n > U16_MAX THEN U16_MAX ELSE n

\* floor(log2 n) for n >= 1: the binary exponent of a float of magnitude n.
RECURSIVE Log2(_)
Log2(n) == IF n < 2 THEN 0 ELSE 1 + Log2(n \div 2)

\* n rounded to a multiple of u, to nearest, ties to the even multiple.
RoundTiesEven(n, u) ==
    LET q == n \div u
        r == n % u
        up == 2 * r > u \/ (2 * r = u /\ q % 2 = 1)
    IN (q + (IF up THEN 1 ELSE 0)) * u

\* heading_deg: f32.  The f32 of a heading written as [deg, f15]: the value
\* itself below 512 degrees (24 significant bits reach 2^-15 there), and from
\* there on the nearest multiple of the f32 spacing 2^(e - 23), e the binary
\* exponent of the magnitude.
AsF32(h) ==
    LET neg == h.deg < 0
        d == IF (~neg) \/ h.f15 = 0 THEN (IF neg THEN -h.deg ELSE h.deg)
             ELSE (-h.deg) - 1
        f == IF (~neg) \/ h.f15 = 0 THEN h.f15 ELSE (2 ^ 15) - h.f15
        e == Log2(d)
        mag == IF d < 2 ^ 9 THEN [d |-> d, f |-> f]
               ELSE IF e < 23
               THEN LET g == RoundTiesEven(f, 2 ^ (e - 8))
                    IN IF g = 2 ^ 15 THEN [d |-> d + 1, f |-> 0]
                       ELSE [d |-> d, f |-> g]
               ELSE LET u == 2 ^ (e - 23)
                        q == d \div u
                        r2 == 2 * ((d % u) * (2 ^ 15) + f)
                        up == r2 > u * (2 ^ 15)
                                 \/ (r2 = u * (2 ^ 15) /\ q % 2 = 1)
                    IN [d |-> (q + (IF up THEN 1 ELSE 0)) * u, f |-> 0]
    IN IF ~neg THEN [deg |-> mag.d, f15 |-> mag.f]
       ELSE IF mag.f = 0 THEN [deg |-> -mag.d, f15 |-> 0]
       ELSE [deg |-> (-mag.d) - 1, f15 |-> (2 ^ 15) - mag.f]

\* f32::rem_euclid(360.0): r = x % 360.0 (exact, sign of x), then r + 360.0
\* when r < 0.0; on this grid the sum is below 512 and so exact.  In floor
\* form that is the degrees modulo 360 with the fraction kept.
rem_euclid_360(x) == [deg |-> x.deg % 360, f15 |-> x.f15]

\* (r * 100.0).round() for r in [0, 360): the product in units of 2^-15,
\* rounded to f32 (exact below 2^24 units, else to the spacing 2^(e - 23)),
\* then f32::round, half away from zero.
MulRound100(r) ==
    LET p == (r.deg * (2 ^ 15) + r.f15) * 100
        pf == IF p < 2 ^ 24 THEN p
              ELSE RoundTiesEven(p, 2 ^ (Log2(p) - 23))
    IN (pf + 2 ^ 14) \div (2 ^ 15)

\* ((heading_deg.rem_euclid(360.0)) * 100.0).round() as u16
HeadingCdeg(h) == AsU16(MulRound100(rem_euclid_360(AsF32(h))))

\* J3_2AirTrack::from_geo
from_geo(track, lat_deg, lon_deg, alt_m, speed_ms, heading_deg) ==
    [track        |-> track,
     lat_e7       |-> AsI32(ScaleRoundE7(lat_deg)),
     lon_e7       |-> AsI32(ScaleRoundE7(lon_deg)),
     alt_m        |-> alt_m,
     speed_ms     |-> speed_ms,
     heading_cdeg |-> HeadingCdeg(heading_deg)]

\* ---- the values the exploration draws from ----

Deg(d, f) == [deg |-> d, f27 |-> f]
Hdg(d, f) == [deg |-> d, f15 |-> f]

TrackSamples == {42, 65535}
\* 45.1234567, -90, 90, 91, -0.00000006, 300, 1/256 and -1/256 (exact halves)
LatSamples == {Deg(45, 16570078), Deg(-90, 0), Deg(90, 0), Deg(91, 0),
               Deg(-1, 134217720), Deg(300, 0), Deg(0, 524288),
               Deg(-1, 133693440)}
\* -122.9876543, 180, 181, 214.7483648
LonSamples == {Deg(-123, 1657012), Deg(180, 0), Deg(181, 0),
               Deg(214, 100443823)}
AltSamples == {1500, -1}
SpeedSamples == {220, 65535}
\* 0, 271, 271.5, 359.994, 359.996, 360, -0.004, -90, 36000, 36000.014, 65535
HeadingSamples == {Hdg(0, 0), Hdg(271, 0), Hdg(271, 16384), Hdg(359, 32571),
                   Hdg(359, 32637), Hdg(360, 0), Hdg(-1, 32637), Hdg(-90, 0),
                   Hdg(36000, 0), Hdg(36000, 459), Hdg(65535, 0)}

AnyTrack == {0, 42, 65535}
AnyLat == {I32_MIN, -1, 451234567, I32_MAX}
AnyLon == {-1229876543, 0, I32_MAX}
AnyAlt == {-32768, -1, 1500, 32767}
AnySpeed == {0, 65535}
AnyHeading == {27150, 65535}
TrailingBytes == {0, 255}
KindSamples == {0, 49, 51, 153, 255}

---------------------------------------------------------------------------
(* The library pipeline *)

\* tests::roundtrip_j3_2: J3_2AirTrack::from_geo(track, lat, lon, alt, ...)
FromGeo ==
    /\ report = <<>>
    /\ \E t \in TrackSamples, la \in LatSamples, lo \in LonSamples,
          a \in AltSamples, s \in SpeedSamples, h \in HeadingSamples :
          /\ geo' = <<[track |-> t, lat |-> la, lon |-> lo, alt_m |-> a,
                       speed_ms |-> s, heading |-> h]>>
          /\ report' = <<from_geo(t, la, lo, a, s, h)>>
    /\ UNCHANGED <<encoded, wire, result>>

\* proofs::no_panic_on_valid_j3_2: a report built field by field.
AnyReport ==
    /\ report = <<>>
    /\ \E t \in AnyTrack, la \in AnyLat, lo \in AnyLon, a \in AnyAlt,
          s \in AnySpeed, h \in AnyHeading :
          report' = <<[track |-> t, lat_e7 |-> la, lon_e7 |-> lo,
                       alt_m |-> a, speed_ms |-> s, heading_cdeg |-> h]>>
    /\ UNCHANGED <<geo, encoded, wire, result>>

\* msg.to_bytes(): the bytes become the buffer in flight.
ToBytes ==
    /\ report # <<>>
    /\ encoded = <<>>
    /\ encoded' = <<JMessage_to_bytes(report[1])>>
    /\ wire' = JMessage_to_bytes(report[1]).msg[1]
    /\ UNCHANGED <<geo, report, result>>

\* The buffer a receiver is handed need not be what was sent: it may have
\* lost its end, gained bytes, or carry another kind tag.
Truncate ==
    /\ encoded # <<>>
    /\ result = <<>>
    /\ Len(wire) > 0
    /\ wire' = SubSeq(wire, 1, Len(wire) - 1)
    /\ UNCHANGED <<geo, report, encoded, result>>

AppendTrailing ==
    /\ encoded # <<>>
    /\ result = <<>>
    /\ Len(wire) >= Len(encoded[1].msg[1])
    /\ Len(wire) < Len(encoded[1].msg[1]) + MaxTrailing
    /\ \E x \in TrailingBytes : wire' = Append(wire, x)
    /\ UNCHANGED <<geo, report, encoded, result>>

SetKind ==
    /\ encoded # <<>>
    /\ result = <<>>
    /\ Len(wire) > 0
    /\ \E k \in KindSamples : wire' = [wire EXCEPT ![1] = k]
    /\ UNCHANGED <<geo, report, encoded, result>>

\* JMessage::from_bytes(&bytes)
FromBytes ==
    /\ encoded # <<>>
    /\ result = <<>>
    /\ result' = <<JMessage_from_bytes(wire)>>
    /\ UNCHANGED <<geo, report, encoded, wire>>

Init ==
    /\ geo = <<>> /\ report = <<>> /\ encoded = <<>> /\ wire = <<>>
    /\ result = <<>>

Next ==
    \/ FromGeo
    \/ AnyReport
    \/ ToBytes
    \/ Truncate
    \/ AppendTrailing
    \/ SetKind
    \/ FromBytes

Spec == Init /\ [][Next]_vars

---------------------------------------------------------------------------
(* Properties of the library pipeline (checked under Spec) *)

\* The bytes to_bytes produced for the report in hand.
Sent == encoded[1].msg[1]

\* The buffer starts with the bytes that were sent.
HasSentPrefix ==
    /\ Len(wire) >= Len(Sent)
    /\ SubSeq(wire, 1, Len(Sent)) = Sent

\* C1: round trip.  For every report, to_bytes succeeds and from_bytes of
\* exactly the bytes it produced returns a message equal, field for field,
\* to the report that was encoded.
C1_RoundTrip ==
    (encoded # <<>>) =>
        /\ encoded[1].tag = "Ok"
        /\ (result # <<>> /\ wire = Sent) => result[1] = Ok(report[1])

\* A report with negative coordinates and altitude has been encoded and
\* decoded from the unmodified bytes.
C1_Witness ==
    /\ result # <<>>
    /\ wire = Sent
    /\ report[1].lat_e7 < 0
    /\ report[1].alt_m < 0
    /\ result[1].tag = "Ok"

\* The latitude / longitude arguments lie in their documented domains.
InDomain(x, bound) ==
    /\ x.deg >= -bound
    /\ (x.deg < bound \/ (x.deg = bound /\ x.f27 = 0))

\* Bit i (from 1) of a byte buffer, the most significant bit of a byte first.
BitAt(buffer, i) ==
    (buffer[((i - 1) \div 8) + 1] \div (2 ^ (7 - ((i - 1) % 8)))) % 2

\* The w bits that start at bit offset o of the buffer hold v, MSB first.
HoldsAt(buffer, o, w, v) ==
    \A j \in 1..w : BitAt(buffer, o + j) = (v \div (2 ^ (w - j))) % 2

\* C2: wire format.  The envelope encoder's output is 16 bytes: the kind
\* tag 0x32, then a 15-byte body in which track takes bits 0-15, latitude
\* (19 bits), longitude (19), track_number (12), altitude (14) and parity
\* (5) follow, speed_ms takes bits 85-100, heading_cdeg bits 101-116, and
\* the last 3 bits are zero.
C2_WireFormat ==
    (encoded # <<>>) =>
        /\ Len(Sent) = 16
        /\ Sent[1] = 50
        /\ HoldsAt(Tail(Sent), 0, 16, report[1].track)
        /\ HoldsAt(Tail(Sent), 16 + 19 + 19 + 12 + 14 + 5, 16, report[1].speed_ms)
        /\ HoldsAt(Tail(Sent), 16 + 19 + 19 + 12 + 14 + 5 + 16, 16,
                   report[1].heading_cdeg)
        /\ HoldsAt(Tail(Sent), 117, 3, 0)

\* C3: masking law.  The report from_geo returns has a track_number equal
\* to the low 12 bits of the track argument, and so has the report decoded
\* from its encoding.
C3_MaskingLaw ==
    (geo # <<>> /\ report # <<>>) =>
        /\ "track_number" \in DOMAIN report[1]
        /\ report[1]["track_number"] = geo[1].track % 4096
        /\ (result # <<>> /\ wire = Sent) =>
               /\ result[1].tag = "Ok"
               /\ "track_number" \in DOMAIN result[1].msg[1]
               /\ result[1].msg[1]["track_number"] = geo[1].track % 4096

\* C4: range soundness.  For latitude in [-90, 90], longitude in
\* [-180, 180] and altitude in [0, 16383 * 25 / 3.28084] metres the report
\* from_geo returns has a latitude code and a longitude code in 0..524287
\* and an altitude code in 0..16383.
C4_RangeSoundness ==
    (/\ geo # <<>> /\ report # <<>>
     /\ InDomain(geo[1].lat, 90)
     /\ InDomain(geo[1].lon, 180)
     /\ geo[1].alt_m \in 0..124838)
        => /\ report[1].lat_e7 \in 0..524287
           /\ report[1].lon_e7 \in 0..524287
           /\ report[1].alt_m \in 0..16383

\* C5: short input.  from_bytes of the empty buffer, and of every buffer
\* that starts with the kind byte 0x32 but is too short to hold the body,
\* fails with the Short error kind and returns no message.
C5_ShortInputIsShort ==
    (/\ result # <<>>
     /\ \/ wire = <<>>
        \/ (wire[1] = MSG_ID_J3_2 /\ Len(wire) < Len(Sent)))
        => (result[1].tag = "Short" /\ result[1].msg = <<>>)

\* C6: unknown kind.  from_bytes of every non-empty buffer whose first byte
\* t is not 0x32 fails with Unsupported(t), whatever follows the first byte
\* and however short the buffer is.
C6_UnknownKind ==
    (result # <<>> /\ Len(wire) >= 1 /\ wire[1] # MSG_ID_J3_2)
        => result[1] = ErrUnsupported(wire[1])

\* A one-byte buffer holding only an unknown kind tag has been decoded.
C6_Witness ==
    /\ result # <<>>
    /\ wire = <<153>>
    /\ result[1].tag = "Unsupported"

\* C7: quantization overflow.  A from_geo call whose latitude is outside
\* [-90, 90], whose longitude is outside [-180, 180] or whose altitude is
\* outside [0, 16383 * 25 / 3.28084] yields no report (an overflow error is
\* reported instead), hence no bytes either.
C7_OverflowIsReported ==
    (/\ geo # <<>>
     /\ \/ ~InDomain(geo[1].lat, 90)
        \/ ~InDomain(geo[1].lon, 180)
        \/ geo[1].alt_m \notin 0..124838)
        => (report = <<>> /\ encoded = <<>>)

\* C8: verbatim fields.  The report from_geo returns carries the track,
\* speed and heading arguments as supplied: for a heading argument that is
\* a whole number in 0..65535 (36000 and more included), heading_cdeg is
\* that number, neither scaled nor reduced.
C8_VerbatimFields ==
    (geo # <<>> /\ report # <<>>) =>
        /\ report[1].track = geo[1].track
        /\ report[1].speed_ms = geo[1].speed_ms
        /\ (geo[1].heading.f15 = 0 /\ geo[1].heading.deg \in 0..U16_MAX)
               => report[1].heading_cdeg = geo[1].heading.deg

\* C9: trailing data is ignored.  from_bytes of the sent bytes followed by
\* any further bytes succeeds and returns exactly what from_bytes of the
\* sent bytes alone returns.
C9_TrailingIgnored ==
    (result # <<>> /\ HasSentPrefix)
        => (result[1].tag = "Ok" /\ result[1] = JMessage_from_bytes(Sent))

\* A buffer carrying two bytes beyond the sent message has been decoded.
C9_Witness ==
    /\ result # <<>>
    /\ HasSentPrefix
    /\ Len(wire) = Len(Sent) + 2
    /\ wire[Len(wire)] = 255
    /\ result[1].tag = "Ok"

\* C10: heading range.  Every report from_geo returns has heading_cdeg in
\* 0..35999, whatever finite heading was passed.
C10_HeadingInRange ==
    (geo # <<>> /\ report # <<>>) => report[1].heading_cdeg \in 0..35999

=============================================================================
